---- MODULE Spec2Model ----
(***************************************************************************)
(* A model of the tumblr.js client (src/tumblr.js): construction of the    *)
(* client (base endpoint and credentials), the planning of a request, and  *)
(* the life of one HTTP request from the moment it is issued to the moment *)
(* its promise is settled by the response-end or the request-error         *)
(* handler.                                                                *)
(***************************************************************************)
EXTENDS Integers, Sequences, FiniteSets

VARIABLES
    options,    \* the argument the constructor was called with
    client,     \* the client: construction status, baseUrl, #credentials
    reqs        \* per request: the state of one #makeRequest call

vars == <<options, client, reqs>>

(***************************************************************************)
(* JavaScript values.  Every value is a record tagged by its type; the     *)
(* payload field is named after the type so that values of different types *)
(* are records over different fields.                                      *)
(***************************************************************************)
Absent == [t |-> "absent"]          \* no own property of that name
Undefined == [t |-> "undefined"]
Null == [t |-> "null"]
Bool(b) == [t |-> "bool", b |-> b]
Num(n) == [t |-> "num", n |-> n]
Str(s) == [t |-> "str", s |-> s]
Arr(a) == [t |-> "arr", a |-> a]
Obj(f) == [t |-> "obj", f |-> f]
EmptyObj == Obj(<<>>)
\* An object a caller builds, as the ordered list of its own <<key, value>>
\* entries (Object.entries), a Map with its entries in insertion order, and a
\* ReadStream of node:fs, named by the file it reads.
Entries(e) == [t |-> "entries", e |-> e]
Map(e) == [t |-> "map", e |-> e]
Stream(id) == [t |-> "stream", id |-> id]
\* A BigInt, as 10n.
BigInt(n) == [t |-> "bigint", n |-> n]

\* ToBoolean: what `if (v)`, `!v` and `a && b` test.
Truthy(v) ==
    CASE v.t = "bool" -> v.b
      [] v.t = "num" -> v.n # 0
      [] v.t = "bigint" -> v.n # 0
      [] v.t = "str" -> v.s # ""
      [] v.t \in {"arr", "obj", "error", "entries", "map", "stream"} -> TRUE
      [] OTHER -> FALSE

\* v === undefined or v === null: what `??` and `?.` test.
Nullish(v) == v.t \in {"absent", "undefined", "null"}

\* Object.prototype.hasOwnProperty.call(o, k) on a record of own properties.
hasOwnProperty(o, k) == o[k].t # "absent"

\* o.k : an absent property reads as undefined.
Read(o, k) == IF o[k].t = "absent" THEN Undefined ELSE o[k]

\* v?.k on a parsed JSON value: undefined unless v is an object with own key k
\* (the keys read by the client are not properties of any prototype).
Get(v, k) ==
    IF v.t = "obj" /\ k \in DOMAIN v.f THEN v.f[k] ELSE Undefined

\* a ?? b
Coalesce(a, b) == IF Nullish(a) THEN b ELSE a

Digit(d) ==
    CASE d = 0 -> "0" [] d = 1 -> "1" [] d = 2 -> "2" [] d = 3 -> "3"
      [] d = 4 -> "4" [] d = 5 -> "5" [] d = 6 -> "6" [] d = 7 -> "7"
      [] d = 8 -> "8" [] d = 9 -> "9"

RECURSIVE NumberToString(_)
\* Number.prototype.toString for a non-negative integer.
NumberToString(n) ==
    IF n < 10 THEN Digit(n) ELSE NumberToString(n \div 10) \o Digit(n % 10)

\* A completion of a string conversion: a string, or a thrown TypeError.
Normal(s) == [threw |-> FALSE, s |-> s]
ThrowTypeError == [threw |-> TRUE, s |-> "TypeError: Cannot convert object to primitive value"]

\* ToString(v) of ECMAScript, as `${v}` and "text" + v compute it.  A parsed JSON object has
\* only data properties: an own "toString" key hides Object.prototype.toString
\* with a value that is not callable, the inherited valueOf returns the object
\* itself, and the conversion ends in a TypeError.  The arrays of the model
\* are empty, and join to the empty string.
ToStringJS(v) ==
    CASE v.t \in {"absent", "undefined"} -> Normal("undefined")
      [] v.t = "null" -> Normal("null")
      [] v.t = "bool" -> Normal(IF v.b THEN "true" ELSE "false")
      [] v.t \in {"num", "bigint"} -> Normal(NumberToString(v.n))
      [] v.t = "str" -> Normal(v.s)
      [] v.t = "arr" -> Normal("")
      [] v.t = "obj" ->
            IF "toString" \in DOMAIN v.f THEN ThrowTypeError
            ELSE Normal("[object Object]")
      [] v.t \in {"entries", "stream"} -> Normal("[object Object]")

RECURSIVE Serializable(_)
\* JSON.stringify(v) returns: it throws a TypeError ("Do not know how to
\* serialize a BigInt") when it comes to a BigInt, at any depth.
Serializable(v) ==
    CASE v.t = "bigint" -> FALSE
      [] v.t = "arr" -> \A i \in 1..Len(v.a) : Serializable(v.a[i])
      [] v.t = "entries" -> \A i \in 1..Len(v.e) : Serializable(v.e[i][2])
      [] OTHER -> TRUE

RECURSIVE JSONstringify(_)
RECURSIVE JSONstringifyElements(_)
RECURSIVE JSONstringifyMembers(_, _)
\* JSON.stringify(v).  The strings of the model hold no character that JSON
\* escapes.  An array element that is undefined is written as null.
JSONstringifyElements(a) ==
    IF a = <<>> THEN ""
    ELSE (IF a[1].t = "undefined" THEN "null" ELSE JSONstringify(a[1]))
         \o (IF Len(a) > 1 THEN "," ELSE "") \o JSONstringifyElements(Tail(a))

\* The members of an object in the order of its keys; a member whose value is
\* undefined is left out.
JSONstringifyMembers(e, first) ==
    IF e = <<>> THEN ""
    ELSE IF e[1][2].t = "undefined" THEN JSONstringifyMembers(Tail(e), first)
    ELSE (IF first THEN "" ELSE ",")
         \o "\"" \o e[1][1] \o "\":" \o JSONstringify(e[1][2])
         \o JSONstringifyMembers(Tail(e), FALSE)

JSONstringify(v) ==
    CASE v.t = "null" -> "null"
      [] v.t = "bool" -> IF v.b THEN "true" ELSE "false"
      [] v.t = "num" -> NumberToString(v.n)
      [] v.t = "str" -> "\"" \o v.s \o "\""
      [] v.t = "arr" -> "[" \o JSONstringifyElements(v.a) \o "]"
      [] v.t = "entries" -> "{" \o JSONstringifyMembers(v.e, TRUE) \o "}"
      \* a stream is written as the object of its enumerable properties, of
      \* which the model keeps the path
      [] v.t = "stream" -> "{\"path\":\"" \o v.id \o "\"}"

(***************************************************************************)
(* URLs.  A URL object is a record of its components; search is the        *)
(* ordered list of <<key, value>> pairs of url.searchParams.               *)
(***************************************************************************)
URLRecord(protocol, username, password, host, pathname, search, hash) ==
    [protocol |-> protocol, username |-> username, password |-> password,
     host |-> host, pathname |-> pathname, search |-> search, hash |-> hash]

InvalidURL == [protocol |-> "invalid"]

API_BASE_URL == "https://api.tumblr.com"

\* new URL(text) for the absolute URL texts of the model.
URLparse(text) ==
    CASE text = "https://api.tumblr.com" ->
            URLRecord("https:", "", "", "api.tumblr.com", "/", <<>>, "")
      [] text = "https://api.tumblr.com/" ->
            URLRecord("https:", "", "", "api.tumblr.com", "/", <<>>, "")
      [] text = "http://localhost:8080" ->
            URLRecord("http:", "", "", "localhost:8080", "/", <<>>, "")
      [] text = "http://localhost:8080/" ->
            URLRecord("http:", "", "", "localhost:8080", "/", <<>>, "")
      [] text = "https://api.tumblr.com/v2" ->
            URLRecord("https:", "", "", "api.tumblr.com", "/v2", <<>>, "")
      [] text = "https://api.tumblr.com/?a=1" ->
            URLRecord("https:", "", "", "api.tumblr.com", "/", <<(<<"a", "1">>)>>, "")
      [] text = "https://user@api.tumblr.com" ->
            URLRecord("https:", "user", "", "api.tumblr.com", "/", <<>>, "")
      [] text = "https://:pw@api.tumblr.com" ->
            URLRecord("https:", "", "pw", "api.tumblr.com", "/", <<>>, "")
      [] text = "https://api.tumblr.com/#top" ->
            URLRecord("https:", "", "", "api.tumblr.com", "/", <<>>, "#top")
      [] text = "https://user:pw@api.tumblr.com/v2?a=1#top" ->
            URLRecord("https:", "user", "pw", "api.tumblr.com", "/v2",
                      <<(<<"a", "1">>)>>, "#top")
      [] text = "https://user:pw@api.tumblr.com/?a=1#top" ->
            URLRecord("https:", "user", "pw", "api.tumblr.com", "/",
                      <<(<<"a", "1">>)>>, "#top")
      [] text = "https://user:pw@api.tumblr.com/#top" ->
            URLRecord("https:", "user", "pw", "api.tumblr.com", "/", <<>>, "#top")
      [] text = "https://:pw@api.tumblr.com/#top" ->
            URLRecord("https:", "", "pw", "api.tumblr.com", "/", <<>>, "#top")
      [] OTHER -> InvalidURL

MaxArrayLen == 2        \* elements of an array-valued parameter
ParamKeys == {"tag", "flags", "api_key"}

\* `${key}[${index}]`
IndexedKey(key, index) == key \o "[" \o NumberToString(index) \o "]"

\* The application/x-www-form-urlencoded serialisation of a key: "[" and "]"
\* are percent-encoded (the other characters of the model's keys and values
\* are not).
SerializeKey(key) ==
    IF \E k \in ParamKeys, i \in 0..MaxArrayLen : key = IndexedKey(k, i)
    THEN LET ki == CHOOSE ki \in ParamKeys \X (0..MaxArrayLen) :
                        key = IndexedKey(ki[1], ki[2])
         IN  ki[1] \o "%5B" \o NumberToString(ki[2]) \o "%5D"
    ELSE key

\* The same serialisation of a value: the UTF-8 bytes of a character outside
\* ASCII are percent-encoded.
SerializeValue(value) ==
    CASE value = "café" -> "caf%C3%A9"
      [] OTHER -> value

RECURSIVE SearchString(_)
\* The pairs of url.searchParams joined with "&".
SearchString(pairs) ==
    IF pairs = <<>> THEN ""
    ELSE SerializeKey(pairs[1][1]) \o "=" \o SerializeValue(pairs[1][2])
         \o (IF Len(pairs) > 1 THEN "&" ELSE "") \o SearchString(Tail(pairs))

\* url.toString()
Href(url) ==
    url.protocol \o "//"
    \o (IF url.username # "" \/ url.password # ""
        THEN url.username \o (IF url.password # "" THEN ":" \o url.password ELSE "") \o "@"
        ELSE "")
    \o url.host \o url.pathname
    \o (IF url.search = <<>> THEN "" ELSE "?" \o SearchString(url.search))
    \o url.hash

(***************************************************************************)
(* Client.constructor                                                      *)
(***************************************************************************)
NoneAuthCredentials == [auth |-> "none"]
ApiKeyCredentials(key) == [auth |-> "apiKey", apiKey |-> key]
OAuth1Credentials(o) ==
    [auth |-> "oauth1", consumer_key |-> o.consumer_key.s,
     consumer_secret |-> o.consumer_secret.s, token |-> o.token.s,
     token_secret |-> o.token_secret.s]

Threw(message) == [status |-> "threw", error |-> message]
Constructed(baseUrl, credentials) ==
    [status |-> "constructed", baseUrl |-> baseUrl, credentials |-> credentials,
     oauthClient |-> credentials.auth = "oauth1"]

\* options?.baseUrl ?? API_BASE_URL
BaseUrlOption(o) ==
    IF o.t = "obj" /\ ~Nullish(o.f.baseUrl) THEN o.f.baseUrl.s ELSE API_BASE_URL

BaseUrlCheckCredentialsFirst(url) ==
    CASE url = InvalidURL -> "invalid"
      [] url.username # "" -> "username"
      [] url.password # "" -> "password"
      [] url.pathname # "/" -> "pathname"
      [] url.search # <<>> -> "search"
      [] url.hash # "" -> "hash"
      [] OTHER -> ""

\* The try/catch of lines 51-101: the thrown tag, or "" when this.baseUrl is set.
BaseUrlCheck(url) ==
    CASE url = InvalidURL -> "invalid"
      [] url.pathname # "/" -> "pathname"
      [] url.search # <<>> -> "search"
      [] url.username # "" -> "username"
      [] url.password # "" -> "password"
      [] url.hash # "" -> "hash"
      [] OTHER -> ""

BaseUrlError(tag) ==
    CASE tag = "pathname" -> "baseUrl option must not include a pathname."
      [] tag = "search" -> "baseUrl option must not include search params (query)."
      [] tag = "username" -> "baseUrl option must not include username."
      [] tag = "password" -> "baseUrl option must not include password."
      [] tag = "hash" -> "baseUrl option must not include hash."
      [] OTHER -> "Invalid baseUrl option provided."

\* !options.k || typeof options.k !== "string"
InvalidCredential(f, k) == ~Truthy(Read(f, k)) \/ Read(f, k).t # "str"

\* Lines 103-145: the credentials, or the message of the TypeError thrown.
CredentialsOf(o) ==
    IF o.t # "obj" THEN [error |-> "", credentials |-> NoneAuthCredentials]
    ELSE IF \E k \in {"consumer_secret", "token_secret", "token"} : hasOwnProperty(o.f, k)
    THEN CASE InvalidCredential(o.f, "consumer_key") ->
                [error |-> "Provide consumer_key or all oauth credentials. Invalid consumer_key provided."]
           [] InvalidCredential(o.f, "consumer_secret") ->
                [error |-> "Provide consumer_key or all oauth credentials. Invalid consumer_secret provided."]
           [] InvalidCredential(o.f, "token") ->
                [error |-> "Provide consumer_key or all oauth credentials. Invalid token provided."]
           [] InvalidCredential(o.f, "token_secret") ->
                [error |-> "Provide consumer_key or all oauth credentials. Invalid token_secret provided."]
           [] OTHER -> [error |-> "", credentials |-> OAuth1Credentials(o.f)]
    ELSE IF Truthy(Read(o.f, "consumer_key"))
    THEN IF Read(o.f, "consumer_key").t # "str"
         THEN [error |-> "You must provide a consumer_key."]
         ELSE [error |-> "", credentials |-> ApiKeyCredentials(o.f.consumer_key.s)]
    ELSE [error |-> "", credentials |-> NoneAuthCredentials]

\* new Client(o): the client, or the TypeError the constructor throws.
Constructor(o) ==
    LET url == URLparse(BaseUrlOption(o))
        tag == BaseUrlCheck(url)
        cred == CredentialsOf(o)
    IN  IF tag # "" THEN Threw(BaseUrlError(tag))
        ELSE IF cred.error # "" THEN Threw(cred.error)
        ELSE Constructed(Href(url), cred.credentials)

(***************************************************************************)
(* The constructor's inputs.                                               *)
(***************************************************************************)
BaseUrlTexts ==
    {"https://api.tumblr.com", "http://localhost:8080", "https://api.tumblr.com/v2",
     "https://api.tumblr.com/?a=1", "https://user@api.tumblr.com",
     "https://:pw@api.tumblr.com", "https://api.tumblr.com/#top",
     "https://user:pw@api.tumblr.com/v2?a=1#top",
     "https://user:pw@api.tumblr.com/?a=1#top", "https://user:pw@api.tumblr.com/#top",
     "https://:pw@api.tumblr.com/#top", "api.tumblr.com"}

BaseUrlOptions == {Absent} \cup {Str(s) : s \in BaseUrlTexts}

\* What a credential option may hold: nothing, an own property that is
\* undefined, the empty string, a non-empty string, and two non-strings.
CredentialValues == {Absent, Undefined, Str(""), Str("key"), Num(0), Num(5)}

OptionObjects ==
    {Obj(f) : f \in [baseUrl : BaseUrlOptions, consumer_key : CredentialValues,
                     consumer_secret : CredentialValues, token : CredentialValues,
                     token_secret : CredentialValues]}

\* new Client() and new Client({...})
OptionsInputs == {Undefined} \cup OptionObjects

NotCalled == [t |-> "notcalled"]
Unconstructed == [status |-> "unconstructed"]

(***************************************************************************)
(* The request planner: #prepareRequestUrlAndRequestData.                  *)
(***************************************************************************)
Reference(scheme, authority, path, query) ==
    [scheme |-> scheme, authority |-> authority, path |-> path, query |-> query]

\* The parts of the apiPath texts of the model, as the URL parser splits them.
ReferenceParse(apiPath) ==
    CASE apiPath = "/v2/user/info" -> Reference("", "", "/v2/user/info", <<>>)
      [] apiPath = "/v2/tagged?tag=a" ->
            Reference("", "", "/v2/tagged", <<(<<"tag", "a">>)>>)
      [] apiPath = "//evil.example/v2/user/info" ->
            Reference("", "evil.example", "/v2/user/info", <<>>)
      [] apiPath = "https://evil.example/v2/user/info" ->
            Reference("https:", "evil.example", "/v2/user/info", <<>>)
      [] apiPath = "/v2/tagged?tag=a&api_key=mine&tag=c" ->
            Reference("", "", "/v2/tagged",
                      << <<"tag", "a">>, <<"api_key", "mine">>, <<"tag", "c">> >>)
      [] apiPath = "/v2/tagged" -> Reference("", "", "/v2/tagged", <<>>)
      [] apiPath = "/v2/blog/example.tumblr.com/posts" ->
            Reference("", "", "/v2/blog/example.tumblr.com/posts", <<>>)
      [] apiPath = "/v2/blog/example.tumblr.com/posts/123" ->
            Reference("", "", "/v2/blog/example.tumblr.com/posts/123", <<>>)

\* new URL(apiPath, baseUrl): a reference with a scheme is a URL of its own, a
\* reference that starts with "//" takes only the scheme of the base, and a
\* path reference takes the scheme and the host (with the port) of the base.
URLresolve(apiPath, baseUrl) ==
    LET ref == ReferenceParse(apiPath)
        base == URLparse(baseUrl)
    IN  IF ref.scheme # ""
        THEN URLRecord(ref.scheme, "", "", ref.authority, ref.path, ref.query, "")
        ELSE IF ref.authority # ""
        THEN URLRecord(base.protocol, "", "", ref.authority, ref.path, ref.query, "")
        ELSE URLRecord(base.protocol, base.username, base.password, base.host,
                       ref.path, ref.query, "")

Has(pairs, key) == \E i \in 1..Len(pairs) : pairs[i][1] = key

RECURSIVE Without(_, _)
\* The pairs whose key is not `key`, in order.
Without(pairs, key) ==
    IF pairs = <<>> THEN <<>>
    ELSE (IF pairs[1][1] = key THEN <<>> ELSE <<pairs[1]>>) \o Without(Tail(pairs), key)

\* url.searchParams.set(key, value): the first pair of that key takes the
\* value and the other pairs of that key go; without one, the pair is added.
SearchParamsSet(pairs, key, value) ==
    IF ~Has(pairs, key) THEN Append(pairs, <<key, value>>)
    ELSE LET first == CHOOSE i \in 1..Len(pairs) :
                        pairs[i][1] = key /\ \A j \in 1..(i - 1) : pairs[j][1] # key
         IN  SubSeq(pairs, 1, first - 1) \o << <<key, value>> >>
             \o Without(SubSeq(pairs, first + 1, Len(pairs)), key)

RECURSIVE AppendIndexed(_, _, _, _)
\* url.searchParams.append(`${key}[${index}]`, arrayValue) for each element.
AppendIndexed(pairs, key, values, index) ==
    IF values = <<>> THEN pairs
    ELSE AppendIndexed(
            Append(pairs, <<IndexedKey(key, index), ToStringJS(values[1]).s>>),
            key, Tail(values), index + 1)

RECURSIVE ParamsToSearch(_, _)
\* Lines 341-352: the entries of params, in order, into the search params.
ParamsToSearch(pairs, entries) ==
    IF entries = <<>> THEN pairs
    ELSE LET key == entries[1][1]
             value == entries[1][2]
         IN  ParamsToSearch(
                IF value.t = "arr" THEN AppendIndexed(pairs, key, value.a, 0)
                ELSE SearchParamsSet(pairs, key, ToStringJS(value).s),
                Tail(entries))

RECURSIVE InheritSearch(_, _)
\* Lines 359-363: each key of the path's own query that the payload lacks.
InheritSearch(requestData, pairs) ==
    IF pairs = <<>> THEN requestData
    ELSE InheritSearch(
            IF Has(requestData, pairs[1][1]) THEN requestData
            ELSE Append(requestData, <<pairs[1][1], Str(pairs[1][2])>>),
            Tail(pairs))

prepareWithPathPrecedence(apiPath, method, params, baseUrl) ==
    LET url == URLresolve(apiPath, baseUrl)
        entries == IF params.t = "entries" THEN params.e ELSE <<>>
    IN  IF method = "GET"
        THEN [url |-> [url EXCEPT !.search = ParamsToSearch(url.search, entries)],
              data |-> Null]
        ELSE LET inherited == InheritSearch(<<>>, url.search)
                 requestData ==
                    inherited \o SelectSeq(entries, LAMBDA e : ~Has(inherited, e[1]))
             IN  [url |-> [url EXCEPT !.search = <<>>],
                  data |-> IF Len(requestData) # 0 THEN Map(requestData) ELSE Null]

prepareKeepingEmptyMap(apiPath, method, params, baseUrl) ==
    LET url == URLresolve(apiPath, baseUrl)
        entries == IF params.t = "entries" THEN params.e ELSE <<>>
    IN  IF method = "GET"
        THEN [url |-> [url EXCEPT !.search = ParamsToSearch(url.search, entries)],
              data |-> Null]
        ELSE [url |-> [url EXCEPT !.search = <<>>],
              data |-> Map(InheritSearch(entries, url.search))]

\* [url, requestData]: params is Undefined or the ordered entries of an object.
prepareRequestUrlAndRequestData(apiPath, method, params, baseUrl) ==
    LET url == URLresolve(apiPath, baseUrl)
        entries == IF params.t = "entries" THEN params.e ELSE <<>>
    IN  IF method = "GET"
        THEN [url |-> [url EXCEPT !.search = ParamsToSearch(url.search, entries)],
              data |-> Null]
        ELSE LET requestData == InheritSearch(entries, url.search)
             IN  [url |-> [url EXCEPT !.search = <<>>],
                  data |-> IF Len(requestData) # 0 THEN Map(requestData) ELSE Null]

(***************************************************************************)
(* The response bodies of the model and JSON.parse.                        *)
(***************************************************************************)
\* A response body as the chunks the transport delivers, in order.
Bodies ==
    { <<>>,
      <<"<html>", "Bad Gateway</html>">>,
      <<"{\"response\":", "{\"id\":1}}">>,
      <<"{\"response\":[]}">>,
      <<"{\"response\":0}">>,
      <<"{\"response\":\"\"}">>,
      <<"{\"meta\":{\"status\":500,\"msg\":\"Limit Exceeded\"},", "\"response\":{}}">>,
      <<"{\"meta\":{\"msg\":null},\"error\":\"Not Found\"}">>,
      <<"{}">>,
      <<"null">>,
      <<"{\"toString\":1}">>,
      <<"{\"meta\":{\"msg\":{\"toString\":1}}}">> }

SyntaxError == [t |-> "SyntaxError"]

\* JSON.parse(text) for the texts a response of the model can add up to; no
\* other text, and no proper prefix of a body in chunks, is JSON.
JSONparse(text) ==
    CASE text = "{\"response\":{\"id\":1}}" -> Obj([response |-> Obj([id |-> Num(1)])])
      [] text = "{\"response\":[]}" -> Obj([response |-> Arr(<<>>)])
      [] text = "{\"response\":0}" -> Obj([response |-> Num(0)])
      [] text = "{\"response\":\"\"}" -> Obj([response |-> Str("")])
      [] text = "{\"meta\":{\"status\":500,\"msg\":\"Limit Exceeded\"},\"response\":{}}" ->
            Obj([meta |-> Obj([status |-> Num(500), msg |-> Str("Limit Exceeded")]),
                 response |-> EmptyObj])
      [] text = "{\"meta\":{\"msg\":null},\"error\":\"Not Found\"}" ->
            Obj([meta |-> Obj([msg |-> Null]), error |-> Str("Not Found")])
      [] text = "{}" -> EmptyObj
      [] text = "null" -> Null
      [] text = "{\"toString\":1}" -> Obj([toString |-> Num(1)])
      [] text = "{\"meta\":{\"msg\":{\"toString\":1}}}" ->
            Obj([meta |-> Obj([msg |-> Obj([toString |-> Num(1)])])])
      [] OTHER -> SyntaxError

StatusCodes == {199, 200, 399, 400, 500}

(***************************************************************************)
(* Errors and the promise of one request.                                  *)
(***************************************************************************)
\* new Error(message); kind names the line that builds it.
Error(kind, message) == [t |-> "error", kind |-> kind, message |-> message]

\* The errors the transport emits on the request.
TransportErrors ==
    { Error("transport", "socket hang up"),
      Error("transport", "getaddrinfo ENOTFOUND api.tumblr.com") }

Pending == [state |-> "pending"]
Fulfilled(value) == [state |-> "fulfilled", value |-> value]
Rejected(reason) == [state |-> "rejected", reason |-> reason]

\* resolve and reject of a promise: only a pending promise is settled.
Settle(promise, outcome) == IF promise.state = "pending" THEN outcome ELSE promise

\* callback(e, responseBody), lines 198-205.
callback(promise, e, responseBody) ==
    IF Truthy(e) THEN Settle(promise, Rejected(e))
    ELSE Settle(promise, Fulfilled(responseBody))

(***************************************************************************)
(* The body of the response-end handler after the one-shot guard, lines    *)
(* 290-307: what it passes to callback, or that it throws before the call. *)
(***************************************************************************)
Calls(e, responseBody) == [throws |-> FALSE, e |-> e, responseBody |-> responseBody]
Throws == [throws |-> TRUE]

\* Classify with the status looked at before the body is parsed.
ClassifyStatusFirst(statusCode, responseData) ==
    LET parsedData == JSONparse(responseData)
    IN  IF statusCode < 200 \/ statusCode > 399
        THEN Calls(Error("api", "API error: " \o NumberToString(statusCode) \o " unknown"),
                   Undefined)
        ELSE IF parsedData = SyntaxError
        THEN Calls(Error("malformed", "API error (malformed API response): " \o responseData),
                   Undefined)
        ELSE Calls(Null, Get(parsedData, "response"))

Classify(statusCode, responseData) ==
    LET parsedData == JSONparse(responseData)
    IN  IF parsedData = SyntaxError
        THEN Calls(Error("malformed", "API error (malformed API response): " \o responseData),
                   Undefined)
        ELSE IF statusCode < 200 \/ statusCode > 399
        THEN LET errString ==
                    ToStringJS(Coalesce(Get(Get(parsedData, "meta"), "msg"),
                                        Coalesce(Get(parsedData, "error"), Str("unknown"))))
             IN  IF errString.threw THEN Throws
                 ELSE Calls(Error("api", "API error: " \o NumberToString(statusCode)
                                          \o " " \o errString.s),
                            Undefined)
        ELSE IF Truthy(Get(parsedData, "response"))
        THEN Calls(Null, Get(parsedData, "response"))
        ELSE LET text == ToStringJS(parsedData)
             IN  IF text.threw THEN Throws
                 ELSE Calls(Error("malformed", "API error (malformed API response): " \o text.s),
                            Undefined)

(***************************************************************************)
(* #makeRequest up to request.end(): transport, URL, headers, body mode.   *)
(***************************************************************************)
\* Line 207.  url.protocol ends in a colon.
httpModel(url) == IF url.protocol = "http" THEN "http" ELSE "https"

\* http.request and https.request refuse a URL of the other scheme with a
\* TypeError (ERR_INVALID_PROTOCOL) thrown out of #makeRequest.
RequestThrows(model, url) == url.protocol # model \o ":"

WithApiKeyAppended(url, credentials) ==
    IF credentials.auth = "apiKey"
    THEN [url EXCEPT !.search = Append(url.search, <<"api_key", credentials.apiKey>>)]
    ELSE url

\* Lines 209-211.
WithApiKey(url, credentials) ==
    IF credentials.auth = "apiKey"
    THEN [url EXCEPT !.search = SearchParamsSet(url.search, "api_key", credentials.apiKey)]
    ELSE url

IsMultipartWithoutData64(data) ==
    Has(data.e, "data") \/ Has(data.e, "json")

\* Line 233.
IsMultipart(data) ==
    Has(data.e, "data") \/ Has(data.e, "data64") \/ Has(data.e, "json")

\* One form.append(name, value, options) call: the value as it is handed to
\* the form builder, and the content type of the options ("" without one).
Part(name, value, contentType) ==
    [name |-> name, value |-> value, contentType |-> contentType]

RECURSIVE AppendElements(_, _, _)
\* Lines 247-250: form.append(`${key}[${index}]`, arrValue) for each element.
AppendElements(key, values, index) ==
    IF values = <<>> THEN <<>>
    ELSE <<Part(IndexedKey(key, index), values[1], "")>>
         \o AppendElements(key, Tail(values), index + 1)

RECURSIVE FormParts(_)
\* Lines 236-262: the form.append calls for the entries of data, in order.
FormParts(entries) ==
    IF entries = <<>> THEN <<>>
    ELSE LET key == entries[1][1]
             value == entries[1][2]
         IN  (CASE key = "json" /\ value.t = "str" ->
                        <<Part(key, value, "application/json")>>
                [] ~(key = "json" /\ value.t = "str") /\ value.t = "arr" ->
                        AppendElements(key, value.a, 0)
                [] ~(key = "json" /\ value.t = "str") /\ value.t = "bool" ->
                        <<Part(key, Str(JSONstringify(value)), "")>>
                [] OTHER -> <<Part(key, value, "")>>)
             \o FormParts(Tail(entries))

NoBody == [mode |-> "none", text |-> "", parts |-> <<>>]

\* The bytes of one character of the model's texts in UTF-8.
UTF8Bytes(ch) ==
    CASE ch = "é" -> 2
      [] OTHER -> 1

RECURSIVE UTF8Length(_)
\* Line 274: request.write(requestBody) writes the string in UTF-8; the
\* number of bytes written.
UTF8Length(text) ==
    IF Len(text) = 0 THEN 0
    ELSE UTF8Bytes(SubSeq(text, 1, 1)) + UTF8Length(SubSeq(text, 2, Len(text)))

\* Line 271: JSON.stringify throws out of #makeRequest.
StringifyThrows(data) ==
    Truthy(data) /\ ~IsMultipart(data) /\ ~Serializable(Entries(data.e))

\* Lines 230-276: nothing without data, a form when data has one of the three
\* keys, the JSON text of the entries of data otherwise.
Body(data) ==
    IF ~Truthy(data) THEN NoBody
    ELSE IF IsMultipart(data)
    THEN [mode |-> "multipart", text |-> "", parts |-> FormParts(data.e)]
    ELSE [mode |-> "json", text |-> JSONstringify(Entries(data.e)), parts |-> <<>>]

\* form.getHeaders(): the content type with the boundary of the form.
FormHeaders == [ContentType |-> "multipart/form-data; boundary=--------------------------0"]

HeadersSignedWithoutQuery(url, method, body, c) ==
    [UserAgent |-> "tumblr.js/4.1.1", Accept |-> "application/json",
     Authorization |->
        IF c.oauthClient /\ c.credentials.auth = "oauth1"
        THEN [url |-> Href([url EXCEPT !.search = <<>>]), token |-> c.credentials.token,
              token_secret |-> c.credentials.token_secret, method |-> method]
        ELSE [url |-> ""],
     ContentType |->
        CASE body.mode = "none" -> ""
          [] body.mode = "multipart" -> FormHeaders.ContentType
          [] body.mode = "json" -> "application/json",
     ContentLength |->
        IF body.mode = "json" THEN Num(Len(body.text)) ELSE Absent]

\* Lines 214-225, 264-266, 272-273: the headers of the request ("" and Absent
\* for a header that is not set).  The Authorization value stands for the
\* signature over its four inputs.
Headers(url, method, body, c) ==
    [UserAgent |-> "tumblr.js/4.1.1", Accept |-> "application/json",
     Authorization |->
        IF c.oauthClient /\ c.credentials.auth = "oauth1"
        THEN [url |-> Href(url), token |-> c.credentials.token,
              token_secret |-> c.credentials.token_secret, method |-> method]
        ELSE [url |-> ""],
     ContentType |->
        CASE body.mode = "none" -> ""
          [] body.mode = "multipart" -> FormHeaders.ContentType
          [] body.mode = "json" -> "application/json",
     ContentLength |->
        IF body.mode = "json" THEN Num(Len(body.text)) ELSE Absent]

NoHeaders ==
    [UserAgent |-> "", Accept |-> "", Authorization |-> [url |-> ""],
     ContentType |-> "", ContentLength |-> Absent]

NoRequest ==
    [phase |-> "unissued", op |-> "", apiPath |-> "", params |-> Undefined,
     npfParams |-> Undefined, method |-> "", url |-> InvalidURL, transport |-> "",
     headers |-> NoHeaders, data |-> Null, body |-> NoBody,
     opened |-> FALSE, ended |-> FALSE, thrownBy |-> "",
     argument |-> Undefined, argumentAfter |-> Undefined,
     responseSeen |-> FALSE, statusCode |-> 0,
     wire |-> <<>>, responseData |-> "", callbackCalled |-> FALSE,
     callbackCalls |-> 0, parseCalls |-> 0, promise |-> Pending,
     endEvents |-> 0, errorEvents |-> 0, firstEvent |-> "none",
     errorEvent |-> Undefined, handlerThrew |-> FALSE]

\* The request after #makeRequest(url, method, data) has returned its promise,
\* or after it has thrown: out of httpModel.request (line 213), before a
\* request exists, or out of JSON.stringify (line 271), after the request has
\* been opened and given its first headers, and before request.end() and the
\* registration of the handlers (lines 278-319).  `opened` says that
\* httpModel.request has returned a request, `ended` that request.end() has
\* been called or left to the end of the form.
makeRequest(url0, method, data, c) ==
    LET url == WithApiKey(url0, c.credentials)
        model == httpModel(url)
    IN  IF RequestThrows(model, url)
        THEN [NoRequest EXCEPT
                !.phase = "threw", !.thrownBy = "request",
                !.method = method, !.url = url, !.transport = model, !.data = data]
        ELSE IF StringifyThrows(data)
        THEN [NoRequest EXCEPT
                !.phase = "threw", !.thrownBy = "stringify", !.opened = TRUE,
                !.method = method, !.url = url, !.transport = model, !.data = data,
                !.headers = Headers(url, method, NoBody, c)]
        ELSE [NoRequest EXCEPT
                !.phase = "open", !.opened = TRUE, !.ended = TRUE,
                !.method = method, !.url = url, !.transport = model, !.data = data,
                !.body = Body(data),
                !.headers = Headers(url, method, Body(data), c)]

\* The caller's params object as a request leaves it.  The planner and
\* #makeRequest only read it: Object.entries(params) and value.entries() make
\* new arrays of its entries (lines 340-345, 355), the payload is a new Map,
\* and form.append and JSON.stringify read the values of that Map (lines
\* 236-271); no statement assigns to params or to one of its values.
ArgumentAfterRequest(method, params) == params

\* getRequest, postRequest and putRequest (lines 171-175, 379-383, 394-398):
\* plan the request, then open it.  The arguments of the call are kept with
\* the request.
request(op, method, apiPath, params, c) ==
    LET plan == prepareRequestUrlAndRequestData(apiPath, method, params, c.baseUrl)
    IN  [makeRequest(plan.url, method, plan.data, c) EXCEPT
            !.op = op, !.apiPath = apiPath, !.params = params,
            !.argument = params, !.argumentAfter = ArgumentAfterRequest(method, params)]

(***************************************************************************)
(* createPost, editPost and #transformNpfParams.                           *)
(***************************************************************************)
\* o[key] for an object given by its entries: undefined without the key.
EntryValue(e, key) ==
    IF \E i \in 1..Len(e) : e[i][1] = key
    THEN e[CHOOSE i \in 1..Len(e) : e[i][1] = key][2]
    ELSE Undefined

\* { ...o, [key]: value }: the key keeps its place when o has it.
WithEntry(e, key, value) ==
    IF \E i \in 1..Len(e) : e[i][1] = key
    THEN [i \in 1..Len(e) |-> IF e[i][1] = key THEN <<key, value>> ELSE e[i]]
    ELSE Append(e, <<key, value>>)

\* String(index)
IndexName(index) == NumberToString(index)

\* Line 453: block.media && block.media instanceof ReadStream
IsMediaBlock(block) ==
    LET media == EntryValue(block.e, "media")
    IN  Truthy(media) /\ media.t = "stream"

TransformedContentMediaOnly(content) ==
    [i \in 1..Len(content) |->
        IF IsMediaBlock(content[i])
        THEN Entries(<< <<"media", Entries(<< <<"identifier", Str(IndexName(i - 1))>> >>)>> >>)
        ELSE content[i]]

\* Lines 452-461: content.map(...), the index of a block being its place
\* counted from 0.
TransformedContent(content) ==
    [i \in 1..Len(content) |->
        IF IsMediaBlock(content[i])
        THEN Entries(WithEntry(content[i].e, "media",
                               Entries(<< <<"identifier", Str(IndexName(i - 1))>> >>)))
        ELSE content[i]]

RECURSIVE MediaStreamsNumberedByCount(_, _)
MediaStreamsNumberedByCount(content, index) ==
    IF content = <<>> THEN <<>>
    ELSE IF IsMediaBlock(content[1])
    THEN << <<IndexName(index), EntryValue(content[1].e, "media")>> >>
         \o MediaStreamsNumberedByCount(Tail(content), index + 1)
    ELSE MediaStreamsNumberedByCount(Tail(content), index)

RECURSIVE MediaStreams(_, _)
\* Line 454: the entries of mediaStreams for the blocks from `index` on.
MediaStreams(content, index) ==
    IF content = <<>> THEN <<>>
    ELSE (IF IsMediaBlock(content[1])
          THEN << <<IndexName(index), EntryValue(content[1].e, "media")>> >>
          ELSE <<>>)
         \o MediaStreams(Tail(content), index + 1)

RECURSIVE Join(_, _)
\* a.join(separator)
Join(a, separator) ==
    IF a = <<>> THEN ""
    ELSE ToStringJS(a[1]).s \o (IF Len(a) > 1 THEN separator ELSE "")
         \o Join(Tail(a), separator)

TransformedTagsOfAnyValue(tags) ==
    IF tags.t = "arr" THEN << <<"tags", Str(Join(tags.a, ","))>> >>
    ELSE IF tags.t = "str" THEN << <<"tags", tags>> >>
    ELSE <<>>

\* Line 463: Array.isArray(tags) && { tags: tags.join(",") }, as the entries
\* the spread of line 467 adds.
TransformedTags(tags) ==
    IF tags.t = "arr" THEN << <<"tags", Str(Join(tags.a, ","))>> >>
    ELSE <<>>

\* Lines 465-469.
TransformedParams(params) ==
    LET tags == EntryValue(params.e, "tags")
        content == EntryValue(params.e, "content")
        rest == SelectSeq(params.e, LAMBDA e : e[1] \notin {"tags", "content"})
    IN  Entries(rest \o TransformedTags(tags)
                \o << <<"content", Arr(TransformedContent(content.a))>> >>)

\* Line 473: JSON.stringify throws out of #transformNpfParams, which calls it
\* only when there is a stream.
TransformThrows(params) ==
    /\ Len(MediaStreams(EntryValue(params.e, "content").a, 0)) # 0
    /\ ~Serializable(TransformedParams(params))

\* Lines 448-479, when it returns.  The keys of mediaStreams are integer
\* indices, which an object lists before its other keys: they come before json.
transformNpfParams(params) ==
    LET mediaStreams == MediaStreams(EntryValue(params.e, "content").a, 0)
        transformedParams == TransformedParams(params)
    IN  IF Len(mediaStreams) # 0
        THEN Entries(mediaStreams \o << <<"json", Str(JSONstringify(transformedParams))>> >>)
        ELSE transformedParams

BlockAfterMapAssigningMedia(block, index) ==
    IF IsMediaBlock(block)
    THEN Entries(WithEntry(block.e, "media",
                           Entries(<< <<"identifier", Str(IndexName(index))>> >>)))
    ELSE block

\* The caller's block after the callback of content.map has run on it (lines
\* 452-461): the callback returns the block itself or a new object made with
\* a spread, and assigns to no property of the block.
BlockAfterMap(block, index) == block

\* The caller's params object after #transformNpfParams: the destructuring of
\* line 448 copies the other fields into a new object, content.map makes a new
\* array, tags.join a new string; the content array keeps its blocks, each as
\* the callback leaves it.
ArgumentAfterTransform(params) ==
    LET content == EntryValue(params.e, "content").a
    IN  Entries(WithEntry(params.e, "content",
                          Arr([i \in 1..Len(content) |-> BlockAfterMap(content[i], i - 1)])))

\* A call that #transformNpfParams has thrown out of: no request was planned.
ThrownByTransform(op, method, params) ==
    [NoRequest EXCEPT !.phase = "threw", !.thrownBy = "transform",
                      !.op = op, !.method = method, !.npfParams = params,
                      !.argument = params,
                      !.argumentAfter = ArgumentAfterTransform(params)]

\* createPost(blogIdentifier, params), lines 423-426.
createPost(blogIdentifier, params, c) ==
    IF TransformThrows(params) THEN ThrownByTransform("createPost", "POST", params)
    ELSE [request("createPost", "POST", "/v2/blog/" \o blogIdentifier \o "/posts",
                  transformNpfParams(params), c)
            EXCEPT !.npfParams = params, !.argument = params,
                   !.argumentAfter = ArgumentAfterTransform(params)]

\* editPost(blogIdentifier, postId, params), lines 440-443.
editPost(blogIdentifier, postId, params, c) ==
    IF TransformThrows(params) THEN ThrownByTransform("editPost", "PUT", params)
    ELSE [request("editPost", "PUT",
                  "/v2/blog/" \o blogIdentifier \o "/posts/" \o postId,
                  transformNpfParams(params), c)
            EXCEPT !.npfParams = params, !.argument = params,
                   !.argumentAfter = ArgumentAfterTransform(params)]

\* { ...params, tag } of line 744: a new object with the entries of params
\* (none when params is undefined) and tag.
SpreadWithTag(params, tag) ==
    Entries(WithEntry(IF params.t = "entries" THEN params.e ELSE <<>>, "tag", Str(tag)))

\* taggedPosts(tag, params), lines 743-745.  The spread reads params.
taggedPosts(tag, params, c) ==
    [request("taggedPosts", "GET", "/v2/tagged", SpreadWithTag(params, tag), c)
        EXCEPT !.argument = params, !.argumentAfter = params]

(***************************************************************************)
(* Bounds and inputs of the request life cycle.                            *)
(***************************************************************************)
MaxEndEvents == 1       \* end events the transport may deliver per response
MaxErrorEvents == 1     \* error events the transport may deliver per request

Reqs == {"r1"}
Methods == {"GET", "POST", "PUT"}
ApiPaths ==
    {"/v2/user/info", "/v2/tagged?tag=a", "//evil.example/v2/user/info",
     "https://evil.example/v2/user/info"}
ParamsInputs == {Undefined, Entries(<< <<"limit", Num(2)>> >>)}

\* Two requests in flight at once, and what the server may answer to each.
PairReqs == {"r1", "r2"}
PairStatusCodes == {200, 500}
PairBodies ==
    { <<"{\"response\":", "{\"id\":1}}">>,
      <<"<html>", "Bad Gateway</html>">>,
      <<"{\"toString\":1}">> }

\* The clients construction can yield.
Clients ==
    {Constructor(o) : o \in {x \in OptionsInputs : Constructor(x).status = "constructed"}}

(***************************************************************************)
(* Inputs of the calls whose plan and encoding are examined.               *)
(***************************************************************************)
ScalarValues == {Str("b"), Num(2), Bool(TRUE), Bool(FALSE)}
ArrayElements == {Str("x"), Bool(TRUE)}
ArrayValues == {Arr(a) : a \in UNION {[1..n -> ArrayElements] : n \in 0..MaxArrayLen}}
CallValues == ScalarValues \cup ArrayValues

\* The params argument: none, an empty object, one parameter, one parameter
\* next to a base64 upload, and a few objects with a stream or a JSON part.
CallParams ==
    {Undefined, Entries(<<>>)}
    \cup {Entries(<< <<k, v>> >>) : k \in ParamKeys, v \in CallValues}
    \cup {Entries(<< <<"data64", Str("QUJD")>>, <<k, v>> >>) :
                k \in ParamKeys, v \in CallValues}
    \cup {Entries(<< <<"data", Stream("photo.jpg")>>, <<"caption", Str("b")>> >>),
          Entries(<< <<"json", Str("{}")>>, <<"tag", Str("b")>> >>),
          Entries(<< <<"tag", Str("b")>>, <<"limit", Num(2)>> >>),
          Entries(<< <<"caption", Str("café")>> >>),
          Entries(<< <<"limit", BigInt(10)>> >>)}

CallPaths ==
    {"/v2/user/info", "/v2/tagged?tag=a", "/v2/tagged?tag=a&api_key=mine&tag=c"}

\* taggedPosts: the tag, and params without and with a tag of their own.
TagInputs == {"cats"}
TaggedParams ==
    {Undefined, Entries(<< <<"limit", Num(2)>> >>),
     Entries(<< <<"tag", Str("b")>>, <<"limit", Num(2)>> >>)}

(***************************************************************************)
(* Inputs of createPost and editPost.                                      *)
(***************************************************************************)
MaxBlocks == 2          \* content blocks of a post

TextBlock == Entries(<< <<"type", Str("text")>>, <<"text", Str("hi")>> >>)

\* An image block whose media is a ReadStream, as in the example of createPost.
StreamBlock(id) ==
    Entries(<< <<"type", Str("image")>>, <<"media", Stream(id)>>,
               <<"alt_text", Str("a")>> >>)

\* An image block whose media is a media object with a URL.
UrlBlock ==
    Entries(<< <<"type", Str("image")>>,
               <<"media", Entries(<< <<"url", Str("https://example.com/i.png")>> >>)>> >>)

Blocks == {TextBlock, StreamBlock("a.jpg"), StreamBlock("b.jpg"), UrlBlock}
Contents == UNION {[1..n -> Blocks] : n \in 0..MaxBlocks}
TagsInputs ==
    { <<>>, << <<"tags", Arr(<<>>)>> >>, << <<"tags", Arr(<<Str("a"), Str("b")>>)>> >>,
      << <<"tags", Str("a,b")>> >> }
PostFields ==
    { <<>>, << <<"state", Str("draft")>> >>,
      << <<"state", Str("draft")>>, <<"is_private", Bool(TRUE)>> >>,
      << <<"parent_post_id", BigInt(10)>> >> }
NpfParams ==
    {Entries(tags \o << <<"content", Arr(content)>> >> \o fields) :
        tags \in TagsInputs, content \in Contents, fields \in PostFields}
BlogIdentifier == "example.tumblr.com"
PostId == "123"

(***************************************************************************)
(* Actions.                                                                *)
(***************************************************************************)
\* new Client(o)
Construct ==
    /\ client.status = "unconstructed"
    /\ \E o \in OptionsInputs :
        /\ options' = o
        /\ client' = Constructor(o)
    /\ UNCHANGED reqs

\* getRequest, postRequest, putRequest: plan the request and open it.
Issue(r) ==
    /\ client.status = "constructed"
    /\ reqs[r].phase = "unissued"
    /\ \E method \in Methods, apiPath \in ApiPaths, params \in ParamsInputs :
        reqs' = [reqs EXCEPT ![r] = request("request", method, apiPath, params, client)]
    /\ UNCHANGED <<options, client>>

\* getRequest(apiPath, params)
GetRequest(r) ==
    /\ client.status = "constructed"
    /\ reqs[r].phase = "unissued"
    /\ \E apiPath \in CallPaths, params \in CallParams :
        reqs' = [reqs EXCEPT ![r] = request("getRequest", "GET", apiPath, params, client)]
    /\ UNCHANGED <<options, client>>

\* postRequest(apiPath, params)
PostRequest(r) ==
    /\ client.status = "constructed"
    /\ reqs[r].phase = "unissued"
    /\ \E apiPath \in CallPaths, params \in CallParams :
        reqs' = [reqs EXCEPT ![r] = request("postRequest", "POST", apiPath, params, client)]
    /\ UNCHANGED <<options, client>>

\* putRequest(apiPath, params)
PutRequest(r) ==
    /\ client.status = "constructed"
    /\ reqs[r].phase = "unissued"
    /\ \E apiPath \in CallPaths, params \in CallParams :
        reqs' = [reqs EXCEPT ![r] = request("putRequest", "PUT", apiPath, params, client)]
    /\ UNCHANGED <<options, client>>

\* taggedPosts(tag, params)
TaggedPosts(r) ==
    /\ client.status = "constructed"
    /\ reqs[r].phase = "unissued"
    /\ \E tag \in TagInputs, params \in TaggedParams :
        reqs' = [reqs EXCEPT ![r] = taggedPosts(tag, params, client)]
    /\ UNCHANGED <<options, client>>

\* createPost(blogIdentifier, params)
CreatePost(r) ==
    /\ client.status = "constructed"
    /\ reqs[r].phase = "unissued"
    /\ \E params \in NpfParams :
        reqs' = [reqs EXCEPT ![r] = createPost(BlogIdentifier, params, client)]
    /\ UNCHANGED <<options, client>>

\* editPost(blogIdentifier, postId, params)
EditPost(r) ==
    /\ client.status = "constructed"
    /\ reqs[r].phase = "unissued"
    /\ \E params \in NpfParams :
        reqs' = [reqs EXCEPT ![r] = editPost(BlogIdentifier, PostId, params, client)]
    /\ UNCHANGED <<options, client>>

\* getRequest("/v2/user/info"), one of two calls on the same client.
PairIssue(r) ==
    /\ client.status = "constructed"
    /\ reqs[r].phase = "unissued"
    /\ reqs' = [reqs EXCEPT ![r] =
                    request("getRequest", "GET", "/v2/user/info", Undefined, client)]
    /\ UNCHANGED <<options, client>>

\* request.on("response") for one of two requests in flight.
PairResponse(r) ==
    /\ reqs[r].phase = "open"
    /\ ~reqs[r].responseSeen
    /\ \E statusCode \in PairStatusCodes, body \in PairBodies :
        reqs' = [reqs EXCEPT ![r].responseSeen = TRUE,
                             ![r].statusCode = statusCode,
                             ![r].wire = body]
    /\ UNCHANGED <<options, client>>

\* request.on("response"): the status line and headers have arrived.
Response(r) ==
    /\ reqs[r].phase = "open"
    /\ ~reqs[r].responseSeen
    /\ \E statusCode \in StatusCodes, body \in Bodies :
        reqs' = [reqs EXCEPT ![r].responseSeen = TRUE,
                             ![r].statusCode = statusCode,
                             ![r].wire = body]
    /\ UNCHANGED <<options, client>>

\* The data handler with one buffer for all the requests of the client.
ResponseDataSharedBuffer(r) ==
    /\ reqs[r].responseSeen
    /\ reqs[r].wire # <<>>
    /\ reqs[r].endEvents = 0
    /\ reqs' = [q \in DOMAIN reqs |->
                    IF q = r
                    THEN [reqs[q] EXCEPT !.responseData = @ \o Head(reqs[r].wire),
                                         !.wire = Tail(@)]
                    ELSE [reqs[q] EXCEPT !.responseData = @ \o Head(reqs[r].wire)]]
    /\ UNCHANGED <<options, client>>

\* response.on("data"): responseData += chunk
ResponseData(r) ==
    /\ reqs[r].responseSeen
    /\ reqs[r].wire # <<>>
    /\ reqs[r].endEvents = 0
    /\ reqs' = [reqs EXCEPT ![r].responseData = @ \o Head(reqs[r].wire),
                            ![r].wire = Tail(@)]
    /\ UNCHANGED <<options, client>>

\* response.on("end"), lines 286-308.
ResponseEnd(r) ==
    /\ reqs[r].responseSeen
    /\ reqs[r].wire = <<>>
    /\ reqs[r].endEvents < MaxEndEvents
    /\ LET q == [reqs[r] EXCEPT
                    !.endEvents = @ + 1,
                    !.firstEvent = IF @ = "none" THEN "end" ELSE @]
           c == Classify(q.statusCode, q.responseData)
       IN  reqs' = [reqs EXCEPT ![r] =
                IF q.callbackCalled THEN q
                ELSE IF c.throws
                THEN [q EXCEPT !.callbackCalled = TRUE, !.parseCalls = @ + 1,
                               !.handlerThrew = TRUE]
                ELSE [q EXCEPT !.callbackCalled = TRUE, !.parseCalls = @ + 1,
                               !.callbackCalls = @ + 1,
                               !.promise = callback(@, c.e, c.responseBody)]]
    /\ UNCHANGED <<options, client>>

\* The error handler without the test of the one-shot guard.
RequestErrorUnguarded(r) ==
    /\ reqs[r].phase = "open"
    /\ reqs[r].errorEvents < MaxErrorEvents
    /\ \E e \in TransportErrors :
        reqs' = [reqs EXCEPT
                    ![r].errorEvents = @ + 1,
                    ![r].firstEvent = IF @ = "none" THEN "error" ELSE @,
                    ![r].errorEvent = IF reqs[r].firstEvent = "none" THEN e ELSE @,
                    ![r].callbackCalled = TRUE,
                    ![r].callbackCalls = @ + 1,
                    ![r].promise = callback(@, e, Undefined)]
    /\ UNCHANGED <<options, client>>

\* The error handler that tests the one-shot guard and never sets it.
RequestErrorGuardNotSet(r) ==
    /\ reqs[r].phase = "open"
    /\ reqs[r].errorEvents < MaxErrorEvents
    /\ \E e \in TransportErrors :
        LET q == [reqs[r] EXCEPT
                    !.errorEvents = @ + 1,
                    !.firstEvent = IF @ = "none" THEN "error" ELSE @,
                    !.errorEvent = IF reqs[r].firstEvent = "none" THEN e ELSE @]
        IN  reqs' = [reqs EXCEPT ![r] =
                IF q.callbackCalled THEN q
                ELSE [q EXCEPT !.callbackCalls = @ + 1,
                               !.promise = callback(@, e, Undefined)]]
    /\ UNCHANGED <<options, client>>

\* request.on("error"), lines 311-316.
RequestError(r) ==
    /\ reqs[r].phase = "open"
    /\ reqs[r].errorEvents < MaxErrorEvents
    /\ \E e \in TransportErrors :
        LET q == [reqs[r] EXCEPT
                    !.errorEvents = @ + 1,
                    !.firstEvent = IF @ = "none" THEN "error" ELSE @,
                    !.errorEvent = IF reqs[r].firstEvent = "none" THEN e ELSE @]
        IN  reqs' = [reqs EXCEPT ![r] =
                IF q.callbackCalled THEN q
                ELSE [q EXCEPT !.callbackCalled = TRUE,
                               !.callbackCalls = @ + 1,
                               !.promise = callback(@, e, Undefined)]]
    /\ UNCHANGED <<options, client>>

(***************************************************************************)
(* Specifications.                                                         *)
(***************************************************************************)
\* Construction: from no client to a client or a thrown TypeError.
InitCtor ==
    /\ options = NotCalled
    /\ client = Unconstructed
    /\ reqs = [r \in Reqs |-> NoRequest]

NextCtor == Construct

SpecCtor == InitCtor /\ [][NextCtor]_vars

\* Requests on a constructed client.
Init ==
    /\ options = NotCalled
    /\ client \in Clients
    /\ reqs = [r \in Reqs |-> NoRequest]

Next ==
    \E r \in Reqs :
        \/ Issue(r)
        \/ Response(r)
        \/ ResponseData(r)
        \/ ResponseEnd(r)
        \/ RequestError(r)

Spec == Init /\ [][Next]_vars

\* The calls of a constructed client, up to the request each one opens.
InitCall ==
    /\ options = NotCalled
    /\ client \in Clients
    /\ reqs = [r \in Reqs |-> NoRequest]

NextCall == \E r \in Reqs : GetRequest(r) \/ PostRequest(r) \/ PutRequest(r)

SpecCall == InitCall /\ [][NextCall]_vars

\* createPost and editPost of a constructed client, up to the request opened.
NextNpf == \E r \in Reqs : CreatePost(r) \/ EditPost(r)

SpecNpf == InitCall /\ [][NextNpf]_vars

\* Every operation that takes a params object, up to the request it opens.
NextOps ==
    \E r \in Reqs :
        \/ GetRequest(r) \/ PostRequest(r) \/ PutRequest(r)
        \/ CreatePost(r) \/ EditPost(r) \/ TaggedPosts(r)

SpecOps == InitCall /\ [][NextOps]_vars

\* Two requests in flight on one client, their events interleaved.
InitPair ==
    /\ options = NotCalled
    /\ client \in Clients
    /\ reqs = [r \in PairReqs |-> NoRequest]

NextPair ==
    \E r \in PairReqs :
        \/ PairIssue(r)
        \/ PairResponse(r)
        \/ ResponseData(r)
        \/ ResponseEnd(r)
        \/ RequestError(r)

SpecPair == InitPair /\ [][NextPair]_vars

\* The transport delivers every event it has for a request.
FairSpec == Spec /\ WF_vars(Next)

(***************************************************************************)
(* Properties.                                                             *)
(***************************************************************************)
Issued(r) == reqs[r].phase # "unissued"
Settled(r) == reqs[r].promise.state # "pending"
SuccessStatus(statusCode) == statusCode >= 200 /\ statusCode <= 399
MalformedPrefix == "API error (malformed API response): "

\* C1: for one request and any order of its data, end and error events, the
\* outcome is produced at most once: callback runs at most once, and a promise
\* that has been settled keeps its outcome through every later event.
C1_OutcomeAtMostOnce ==
    [][\A r \in Reqs :
        /\ reqs'[r].callbackCalls <= 1
        /\ Settled(r) => reqs'[r].promise = reqs[r].promise]_vars

\* Both an end event and an error event have been delivered to a request whose
\* promise is settled: the later of the two was ignored.
C1_Witness ==
    \E r \in Reqs :
        /\ reqs[r].endEvents >= 1
        /\ reqs[r].errorEvents >= 1
        /\ Settled(r)
        /\ reqs[r].callbackCalls = 1

\* C2: every request that was opened is eventually settled: its promise is
\* resolved or rejected once the transport has delivered its events.
C2_EveryRequestSettles ==
    \A r \in Reqs : (reqs[r].phase = "open") ~> Settled(r)

CredentialKeys == {"consumer_key", "consumer_secret", "token", "token_secret"}
Supplied(o) == IF o.t # "obj" THEN {} ELSE {k \in CredentialKeys : ~Nullish(o.f[k])}
NonEmptyString(v) == v.t = "str" /\ v.s # ""

\* C3: a client is constructed only from no credentials (auth none), from a
\* non-empty string consumer_key alone (auth apiKey) or from four non-empty
\* strings (auth oauth1); every other credential set fails construction.
C3_PartialCredentialsFail ==
    client.status = "constructed" =>
        \/ Supplied(options) = {} /\ client.credentials.auth = "none"
        \/ /\ Supplied(options) = {"consumer_key"}
           /\ NonEmptyString(options.f.consumer_key)
           /\ client.credentials.auth = "apiKey"
        \/ /\ Supplied(options) = CredentialKeys
           /\ \A k \in CredentialKeys : NonEmptyString(options.f[k])
           /\ client.credentials.auth = "oauth1"

\* C4: a request to an http URL uses the plain transport and a request to an
\* https URL uses the secure transport.
C4_TransportByScheme ==
    \A r \in Reqs :
        Issued(r) =>
            /\ reqs[r].url.protocol = "http:" => reqs[r].transport = "http"
            /\ reqs[r].url.protocol = "https:" => reqs[r].transport = "https"

\* C5: the URL of every request has the scheme, host and port of the client's
\* base endpoint.
C5_UrlKeepsBaseOrigin ==
    \A r \in Reqs :
        Issued(r) =>
            /\ reqs[r].url.protocol = URLparse(client.baseUrl).protocol
            /\ reqs[r].url.host = URLparse(client.baseUrl).host

\* The end handler was the first of the two terminal events: it classified the
\* text in responseData under statusCode.
EndClassified(r) == reqs[r].firstEvent = "end"
ParsedBody(r) == JSONparse(reqs[r].responseData)
HasInnerData(v) == v.t = "obj" /\ "response" \in DOMAIN v.f

\* C6: a success status and a JSON envelope with the inner data field resolve
\* the promise with exactly the inner value, whatever the value is.
C6_EnvelopeRoundTrip ==
    \A r \in Reqs :
        (/\ EndClassified(r)
         /\ SuccessStatus(reqs[r].statusCode)
         /\ HasInnerData(ParsedBody(r)))
        => reqs[r].promise = Fulfilled(ParsedBody(r).f.response)

\* The message source the claim names: meta.msg, else error, else "unknown".
ErrStringOf(v) ==
    IF ~Nullish(Get(Get(v, "meta"), "msg")) THEN Get(Get(v, "meta"), "msg")
    ELSE IF ~Nullish(Get(v, "error")) THEN Get(v, "error")
    ELSE Str("unknown")

\* C7: a JSON body under a status outside 200..399 rejects the promise with an
\* API error, with or without an inner data field, whose message is built from
\* meta.msg, else from error, else from "unknown".
C7_ApiErrorOutsideSuccessRange ==
    \A r \in Reqs :
        (/\ EndClassified(r)
         /\ ParsedBody(r) # SyntaxError
         /\ ~SuccessStatus(reqs[r].statusCode))
        => /\ reqs[r].promise.state = "rejected"
           /\ reqs[r].promise.reason.kind = "api"
           /\ ~ToStringJS(ErrStringOf(ParsedBody(r))).threw =>
                reqs[r].promise.reason.message =
                    "API error: " \o NumberToString(reqs[r].statusCode) \o " "
                    \o ToStringJS(ErrStringOf(ParsedBody(r))).s

\* C8: a complete body that is not JSON rejects the promise with a malformed-
\* response error that carries the raw text, under every status code.
C8_NonJsonIsMalformed ==
    \A r \in Reqs :
        (EndClassified(r) /\ ParsedBody(r) = SyntaxError)
        => reqs[r].promise =
                Rejected(Error("malformed", MalformedPrefix \o reqs[r].responseData))

\* A non-JSON body of two chunks was classified under an error status.
C8_Witness ==
    \E r \in Reqs :
        /\ EndClassified(r)
        /\ ParsedBody(r) = SyntaxError
        /\ reqs[r].responseData = "<html>Bad Gateway</html>"
        /\ reqs[r].statusCode = 500

\* C9: a success status and a JSON body without the inner data field reject
\* the promise with a malformed-response error.
C9_NoInnerDataIsMalformed ==
    \A r \in Reqs :
        (/\ EndClassified(r)
         /\ SuccessStatus(reqs[r].statusCode)
         /\ ParsedBody(r) # SyntaxError
         /\ ~HasInnerData(ParsedBody(r)))
        => /\ reqs[r].promise.state = "rejected"
           /\ reqs[r].promise.reason.kind = "malformed"

\* C10: an error event that comes before the end event rejects the promise
\* with that very error, and the body received so far is never parsed.
C10_TransportErrorFails ==
    \A r \in Reqs :
        reqs[r].firstEvent = "error" =>
            /\ reqs[r].promise = Rejected(reqs[r].errorEvent)
            /\ reqs[r].parseCalls = 0

\* The error came after a chunk of the body, and an end event came after it.
C10_Witness ==
    \E r \in Reqs :
        /\ reqs[r].firstEvent = "error"
        /\ reqs[r].responseData # ""
        /\ reqs[r].endEvents >= 1
        /\ reqs[r].promise.state = "rejected"

\* The pairs of the request URL's query whose key is api_key.
ApiKeyPairs(r) ==
    {i \in 1..Len(reqs[r].url.search) : reqs[r].url.search[i][1] = "api_key"}

\* C11: in API-key mode the URL of every request carries exactly one api_key
\* pair and its value is the configured key, whatever the caller supplied
\* under that name in params or in the path, for reads and for writes.
C11_ApiKeyExactlyOnce ==
    \A r \in Reqs :
        (Issued(r) /\ client.credentials.auth = "apiKey") =>
            /\ Cardinality(ApiKeyPairs(r)) = 1
            /\ \A i \in ApiKeyPairs(r) :
                    reqs[r].url.search[i][2] = client.credentials.apiKey

\* A GET in API-key mode whose params and path both carry an api_key of the
\* caller's, and a write whose path carries one.
C11_Witness ==
    \E r \in Reqs :
        /\ reqs[r].phase = "open" /\ client.credentials.auth = "apiKey"
        /\ reqs[r].method = "GET"
        /\ reqs[r].params.t = "entries" /\ Has(reqs[r].params.e, "api_key")
        /\ Has(ReferenceParse(reqs[r].apiPath).query, "api_key")

\* What the planner returns for the arguments of the call of request r.
Planned(r) ==
    prepareRequestUrlAndRequestData(reqs[r].apiPath, reqs[r].method, reqs[r].params,
                                    client.baseUrl)

\* C12: in OAuth1 mode the Authorization header of every request sent is the
\* signature over the text of the final URL, the verb and the configured
\* token and token secret; in the none and API-key modes no Authorization
\* header is set; in the none and OAuth1 modes the URL sent is the planned
\* URL, with no api_key added.
C12_AuthorizationByMode ==
    \A r \in Reqs :
        reqs[r].phase = "open" =>
            /\ client.credentials.auth = "oauth1" =>
                    reqs[r].headers.Authorization =
                        [url |-> Href(reqs[r].url),
                         token |-> client.credentials.token,
                         token_secret |-> client.credentials.token_secret,
                         method |-> reqs[r].method]
            /\ client.credentials.auth \in {"none", "apiKey"} =>
                    reqs[r].headers.Authorization = [url |-> ""]
            /\ client.credentials.auth \in {"none", "oauth1"} =>
                    reqs[r].url = Planned(r).url

\* An OAuth1 GET whose parameters reach the query of the signed URL.
C12_Witness ==
    \E r \in Reqs :
        /\ reqs[r].phase = "open" /\ client.credentials.auth = "oauth1"
        /\ reqs[r].method = "GET" /\ reqs[r].url.search # <<>>
        /\ reqs[r].headers.Authorization.url = Href(reqs[r].url)

RECURSIVE PairsWithKeyIn(_, _)
\* The pairs whose key is in `keys`, in order.
PairsWithKeyIn(pairs, keys) ==
    IF pairs = <<>> THEN <<>>
    ELSE (IF pairs[1][1] \in keys THEN <<pairs[1]>> ELSE <<>>)
         \o PairsWithKeyIn(Tail(pairs), keys)

\* The keys k[0], k[1], ... of the model.
IndexedKeys(k) == {IndexedKey(k, i) : i \in 0..MaxArrayLen}

\* k[0]=v0, k[1]=v1, ... for the elements of an array, in element order.
IndexedPairs(k, a) ==
    [i \in 1..Len(a) |-> <<IndexedKey(k, i - 1), ToStringJS(a[i]).s>>]

ParamEntries(r) == IF reqs[r].params.t = "entries" THEN reqs[r].params.e ELSE <<>>

\* C13: for a GET the query the planner emits holds, for every array-valued
\* parameter k, exactly the pairs k[i]=vi in element order and no bare k pair,
\* and for every scalar parameter k exactly one pair k=v (whatever the path's
\* own query held for k); the request has no payload and no body.
C13_ReadQuery ==
    \A r \in Reqs :
        (Issued(r) /\ reqs[r].method = "GET") =>
            LET search == Planned(r).url.search
                entries == ParamEntries(r)
            IN  /\ \A j \in 1..Len(entries) :
                        LET k == entries[j][1]
                            v == entries[j][2]
                        IN  IF v.t = "arr"
                            THEN /\ PairsWithKeyIn(search, IndexedKeys(k))
                                        = IndexedPairs(k, v.a)
                                 /\ ~Has(search, k)
                            ELSE PairsWithKeyIn(search, {k})
                                        = << <<k, ToStringJS(v).s>> >>
                /\ reqs[r].data = Null
                /\ reqs[r].body = NoBody

IsWrite(r) == Issued(r) /\ reqs[r].method \in {"POST", "PUT"}

\* The entries of the payload of request r (none when the payload is null).
DataEntries(r) == IF reqs[r].data.t = "map" THEN reqs[r].data.e ELSE <<>>

\* The query of the path of the call, as the caller wrote it.
PathQuery(r) == ReferenceParse(reqs[r].apiPath).query

\* The value the payload holds under a key it has.
DataValue(r, k) ==
    LET e == DataEntries(r)
    IN  e[CHOOSE i \in 1..Len(e) : e[i][1] = k][2]

\* The first value the path's own query holds for a key it has.
FirstPathValue(r, k) ==
    LET q == PathQuery(r)
    IN  q[CHOOSE i \in 1..Len(q) : q[i][1] = k /\ \A j \in 1..(i - 1) : q[j][1] # k][2]

\* C14: for a POST or PUT the payload holds each key once; it holds every
\* parameter with the value the caller supplied, each key of the path's own
\* query that is not a parameter with the value the path gave it, and nothing
\* else; and the URL the planner returns has an empty query.
C14_WritePayload ==
    \A r \in Reqs :
        IsWrite(r) =>
            LET entries == ParamEntries(r)
                data == DataEntries(r)
            IN  /\ reqs[r].data = Planned(r).data
                /\ \A i, j \in 1..Len(data) : data[i][1] = data[j][1] => i = j
                /\ \A j \in 1..Len(entries) :
                        /\ Has(data, entries[j][1])
                        /\ DataValue(r, entries[j][1]) = entries[j][2]
                /\ \A j \in 1..Len(PathQuery(r)) :
                        LET k == PathQuery(r)[j][1]
                        IN  ~Has(entries, k) =>
                                /\ Has(data, k)
                                /\ DataValue(r, k) = Str(FirstPathValue(r, k))
                /\ \A i \in 1..Len(data) :
                        Has(entries, data[i][1]) \/ Has(PathQuery(r), data[i][1])
                /\ Planned(r).url.search = <<>>

\* A write whose path and params both hold tag, and whose path also holds a
\* key the params lack: the payload has the caller's tag and the path's api_key.
C14_Witness ==
    \E r \in Reqs :
        /\ IsWrite(r) /\ reqs[r].phase = "open"
        /\ Has(ParamEntries(r), "tag") /\ Has(PathQuery(r), "tag")
        /\ ~Has(ParamEntries(r), "api_key") /\ Has(PathQuery(r), "api_key")
        /\ DataValue(r, "api_key") = Str("mine")
        /\ DataValue(r, "tag") # Str("a")

\* C15: a POST or PUT that is sent with no parameter and no key in the path's
\* own query has a null payload (not an empty Map), no body, and neither a
\* Content-Type nor a Content-Length header; one with at least one key has a
\* Map as payload and a body, which in JSON mode is a non-empty text.
C15_NoBodyIffNoKey ==
    \A r \in Reqs :
        (IsWrite(r) /\ reqs[r].phase = "open") =>
            IF ParamEntries(r) = <<>> /\ PathQuery(r) = <<>>
            THEN /\ reqs[r].data = Null
                 /\ reqs[r].body = NoBody
                 /\ reqs[r].headers.ContentType = ""
                 /\ reqs[r].headers.ContentLength = Absent
            ELSE /\ reqs[r].data.t = "map" /\ reqs[r].data.e # <<>>
                 /\ reqs[r].body.mode \in {"json", "multipart"}
                 /\ reqs[r].body.mode = "json" => reqs[r].body.text # ""
                 /\ reqs[r].body.mode = "multipart" => reqs[r].body.parts # <<>>
                 /\ reqs[r].headers.ContentType # ""

\* A write that was given an empty object as params and a path with no query.
C15_Witness ==
    \E r \in Reqs :
        /\ IsWrite(r) /\ reqs[r].phase = "open"
        /\ reqs[r].params = Entries(<<>>) /\ PathQuery(r) = <<>>
        /\ reqs[r].data = Null /\ reqs[r].body = NoBody

HasPayload(r) == IsWrite(r) /\ reqs[r].phase = "open" /\ reqs[r].data.t = "map"

HasUploadKey(r) ==
    \E k \in {"data", "data64", "json"} : Has(DataEntries(r), k)

\* C16: a write that is sent with a payload has a multipart form as body
\* exactly when the payload has a key data, data64 or json, and then the
\* Content-Type is the form's own and no JSON text is written; otherwise the
\* body is the JSON text of the payload with Content-Type application/json
\* and no form part.
C16_OneBodyEncoding ==
    \A r \in Reqs :
        HasPayload(r) =>
            /\ reqs[r].body.mode = "multipart" <=> HasUploadKey(r)
            /\ reqs[r].body.mode = "json" <=> ~HasUploadKey(r)
            /\ reqs[r].body.mode = "multipart" =>
                    /\ reqs[r].body.text = ""
                    /\ reqs[r].headers.ContentType = FormHeaders.ContentType
                    /\ reqs[r].headers.ContentLength = Absent
            /\ reqs[r].body.mode = "json" =>
                    /\ reqs[r].body.parts = <<>>
                    /\ reqs[r].body.text = JSONstringify(Entries(DataEntries(r)))
                    /\ reqs[r].headers.ContentType = "application/json"

\* A write with a data64 key, sent as a form.
C16_Witness ==
    \E r \in Reqs :
        /\ HasPayload(r) /\ Has(DataEntries(r), "data64")
        /\ reqs[r].body.mode = "multipart"

\* C20: in a request sent as a multipart form no part is handed to the form
\* builder as a native boolean, and every boolean-valued field of the payload
\* is a part whose value is the text "true" or "false".
C20_BooleansAsText ==
    \A r \in Reqs :
        (Issued(r) /\ reqs[r].body.mode = "multipart") =>
            LET parts == reqs[r].body.parts
                data == DataEntries(r)
            IN  /\ \A i \in 1..Len(parts) : parts[i].value.t # "bool"
                /\ \A j \in 1..Len(data) :
                        data[j][2].t = "bool" =>
                            \E i \in 1..Len(parts) :
                                /\ parts[i].name = data[j][1]
                                /\ parts[i].value =
                                        Str(IF data[j][2].b THEN "true" ELSE "false")

\* A createPost or editPost call whose transformation has returned a payload.
IsNpf(r) ==
    /\ Issued(r) /\ reqs[r].op \in {"createPost", "editPost"}
    /\ reqs[r].thrownBy # "transform"

\* The content, the tags and the other fields createPost or editPost was given.
InputContent(r) == EntryValue(reqs[r].npfParams.e, "content").a
InputTags(r) == EntryValue(reqs[r].npfParams.e, "tags")
InputFields(r) ==
    SelectSeq(reqs[r].npfParams.e, LAMBDA e : e[1] \notin {"tags", "content"})

\* The media of a block, and whether it is a stream to upload.
MediaOf(block) == EntryValue(block.e, "media")
HasStreamMedia(block) == MediaOf(block).t = "stream"

\* { identifier: "i" } for the block at place i, counted from 0.
Identifier(i) == Entries(<< <<"identifier", Str(NumberToString(i))>> >>)
PartName(i) == NumberToString(i)

\* The structural payloads a request could carry for its input: the input's
\* fields with or without a tags field, and a content whose block at each
\* place is the input's block or that block with an identifier as media.
FieldCandidates(r) ==
    {InputFields(r) \o t :
        t \in {<<>>}
               \cup (IF InputTags(r).t = "undefined" THEN {}
                     ELSE {<< <<"tags", InputTags(r)>> >>})
               \cup (IF InputTags(r).t = "arr"
                     THEN {<< <<"tags", Str(Join(InputTags(r).a, ","))>> >>}
                     ELSE {})}

ContentCandidates(r) ==
    LET input == InputContent(r)
        n == Len(input)
    IN  {[i \in 1..n |->
            IF choice[i] = 0 THEN input[i]
            ELSE Entries(WithEntry(input[i].e, "media", Identifier(choice[i] - 1)))] :
         choice \in [1..n -> 0..n]}

\* The payload of request r carries the structure (fields, content): as the
\* text of its json entry when it has one, as its own entries otherwise.
Carries(r, fields, c) ==
    LET structure == fields \o << <<"content", Arr(c)>> >>
    IN  IF Has(DataEntries(r), "json")
        THEN DataValue(r, "json") = Str(JSONstringify(Entries(structure)))
        ELSE DataEntries(r) = structure

C18_ContentPreserved ==
    \A r \in Reqs :
        IsNpf(r) =>
            LET input == InputContent(r)
            IN  \E fields \in FieldCandidates(r), c \in ContentCandidates(r) :
                    /\ Carries(r, fields, c)
                    /\ Len(c) = Len(input)
                    /\ \A i \in 1..Len(input) :
                            IF HasStreamMedia(input[i])
                            THEN /\ Len(c[i].e) = Len(input[i].e)
                                 /\ \A j \in 1..Len(input[i].e) :
                                        /\ c[i].e[j][1] = input[i].e[j][1]
                                        /\ c[i].e[j][1] # "media" =>
                                                c[i].e[j] = input[i].e[j]
                            ELSE c[i] = input[i]

\* A post of two different blocks, the first with a stream, the second with
\* a media object that is not a stream.
C18_Witness ==
    \E r \in Reqs :
        /\ IsNpf(r) /\ reqs[r].phase = "open"
        /\ Len(InputContent(r)) = 2
        /\ HasStreamMedia(InputContent(r)[1])
        /\ InputContent(r)[2] = UrlBlock
        /\ Has(DataEntries(r), "json")

\* The places of the input blocks whose media is a stream.
StreamPlaces(r) == {i \in 1..Len(InputContent(r)) : HasStreamMedia(InputContent(r)[i])}

\* The JSON text of the structural fields of the post: the fields the caller
\* gave, tags joined with commas when tags was an array, and the content with
\* an identifier in the place of each stream.
StructuralText(r) ==
    LET input == InputContent(r)
        tags == IF InputTags(r).t = "arr"
                THEN << <<"tags", Str(Join(InputTags(r).a, ","))>> >>
                ELSE <<>>
        content == [i \in 1..Len(input) |->
                        IF HasStreamMedia(input[i])
                        THEN Entries(WithEntry(input[i].e, "media", Identifier(i - 1)))
                        ELSE input[i]]
    IN  JSONstringify(Entries(InputFields(r) \o tags \o << <<"content", Arr(content)>> >>))

PartsNamed(r, name) ==
    {i \in 1..Len(reqs[r].body.parts) : reqs[r].body.parts[i].name = name}

C21_ContentLengthInBytes ==
    \A r \in Reqs :
        (IsWrite(r) /\ reqs[r].phase = "open" /\ reqs[r].body.mode = "json") =>
            reqs[r].headers.ContentLength = Num(UTF8Length(reqs[r].body.text))

\* The call of request r has thrown because its payload cannot be serialized.
EncodingThrew(r) ==
    reqs[r].phase = "threw" /\ reqs[r].thrownBy \in {"stringify", "transform"}

\* C22: when a write payload cannot be serialized the call throws before any
\* I/O: no HTTP request has been opened for the call, so none is left that
\* was opened and not ended.
C22_EncodingErrorBeforeIO ==
    \A r \in Reqs :
        EncodingThrew(r) => ~reqs[r].opened /\ ~(reqs[r].opened /\ ~reqs[r].ended)

\* The base URL the constructor was given, parsed: the option, or the default.
GivenBaseUrl ==
    URLparse(IF options.t = "obj" /\ options.f.baseUrl.t = "str"
             THEN options.f.baseUrl.s ELSE API_BASE_URL)

TypeErrorThrown(message) == client = [status |-> "threw", error |-> message]

\* C23: after construction, a base URL that does not parse has failed with
\* the generic error; one that parses has failed with the error of the first
\* constraint it violates, in the order pathname, search, username, password,
\* hash, whatever the credentials were; and a client exists only for a URL
\* that violates none, with that URL as its base.
C23_BaseUrlValidated ==
    client.status # "unconstructed" =>
        LET url == GivenBaseUrl
        IN  IF url = InvalidURL
            THEN TypeErrorThrown("Invalid baseUrl option provided.")
            ELSE /\ url.pathname # "/" =>
                        TypeErrorThrown("baseUrl option must not include a pathname.")
                 /\ (url.pathname = "/" /\ url.search # <<>>) =>
                        TypeErrorThrown("baseUrl option must not include search params (query).")
                 /\ (url.pathname = "/" /\ url.search = <<>> /\ url.username # "") =>
                        TypeErrorThrown("baseUrl option must not include username.")
                 /\ (url.pathname = "/" /\ url.search = <<>> /\ url.username = ""
                        /\ url.password # "") =>
                        TypeErrorThrown("baseUrl option must not include password.")
                 /\ (url.pathname = "/" /\ url.search = <<>> /\ url.username = ""
                        /\ url.password = "" /\ url.hash # "") =>
                        TypeErrorThrown("baseUrl option must not include hash.")
                 /\ client.status = "constructed" =>
                        /\ url.pathname = "/" /\ url.search = <<>> /\ url.username = ""
                        /\ url.password = "" /\ url.hash = ""
                        /\ client.baseUrl = Href(url)

\* A base URL with a query, a username, a password and a fragment, given with
\* credentials that are themselves invalid: the error names the query.
C23_Witness ==
    /\ options.t = "obj"
    /\ options.f.baseUrl = Str("https://user:pw@api.tumblr.com/?a=1#top")
    /\ options.f.consumer_secret = Str("key") /\ options.f.consumer_key = Absent
    /\ TypeErrorThrown("baseUrl option must not include search params (query).")

RECURSIVE Concat(_)
\* The chunks of a body, joined.
Concat(chunks) == IF chunks = <<>> THEN "" ELSE Head(chunks) \o Concat(Tail(chunks))

\* The promise that the events of request r alone account for: pending before
\* its first end or error event; rejected with its own error when that came
\* first; otherwise what the end handler makes of its own status and buffer.
OwnOutcome(r) ==
    CASE reqs[r].firstEvent = "none" -> Pending
      [] reqs[r].firstEvent = "error" -> Rejected(reqs[r].errorEvent)
      [] reqs[r].firstEvent = "end" ->
            LET c == Classify(reqs[r].statusCode, reqs[r].responseData)
            IN  IF c.throws THEN Pending ELSE callback(Pending, c.e, c.responseBody)

\* The buffer of request r and the chunks still to come are the body the
\* server sent to r.
OwnBuffer(r) ==
    reqs[r].responseSeen =>
        \E body \in PairBodies :
            reqs[r].responseData \o Concat(reqs[r].wire) = Concat(body)

====
